---- MODULE Spec2Model ----
(***************************************************************************)
(* A model of the virus_alert crate: the Population sampling protocol      *)
(* (population.rs), the Board daily-advance cycle (board.rs) and the       *)
(* Building / Recording collaborators the cycle drives.                    *)
(***************************************************************************)
EXTENDS Integers, Sequences, FiniteSets, TLC

VARIABLES
    population,   \* Population.population: the ordered sequence of individuals
    counter,      \* Population.counter: the sampling cursor
    buildings,    \* Board.buildings
    inactive,     \* Board.inactive
    recording,    \* Board.recording (its counting table)
    panic,        \* TRUE once a fatal assertion has stopped the program
    lastOp,       \* the operation the last step performed
    ret,          \* what that operation returned
    pre,          \* what the last operation found: see PreOf
    draws,        \* history of the draws since the last shuffle
    many,         \* the advance() calls made, and the boards they can have left
    sim           \* the Simulation built on the board: its plan, its replicates, its Report

vars == <<population, counter, buildings, inactive, recording, panic, lastOp, ret, pre, draws, many, sim>>

(***************************************************************************)
(* Bounds                                                                  *)
(***************************************************************************)
MaxPop == 2        \* largest population a board is built with or a visit starts from
MaxCap == 2        \* largest capacity of a building
MaxDays == 2       \* guard: advance() calls registered in a counting table
MaxSims == 2       \* largest number of replicates a ReportPlan asks for

(***************************************************************************)
(* individual.rs                                                           *)
(***************************************************************************)
Individual == {"Healthy", "Infected1", "Infected2", "Infected3", "Sick", "Immune"}

\* mutant: the match on self is dropped
can_infect_whoever(self, other) == other = "Healthy"

\* Individual::can_infect: self is infected and other is Healthy
can_infect(self, other) ==
    IF self \in {"Healthy", "Sick", "Immune"} THEN FALSE ELSE other = "Healthy"

(***************************************************************************)
(* Helpers on sequences                                                    *)
(***************************************************************************)
\* vec.iter().filter(|i| i == query).count()
CountIn(vec, query) == Cardinality({i \in 1..Len(vec) : vec[i] = query})

\* the per-state counts of a sequence
CountsOf(vec) == [s \in Individual |-> CountIn(vec, s)]

\* all sequences over S of length at most n
SeqsUpTo(S, n) == UNION {[1..k -> S] : k \in 0..n}

\* the orders of the elements of S, as sequences
RECURSIVE PermsOf(_)
PermsOf(S) ==
    IF S = {} THEN {<<>>}
    ELSE UNION {{Append(p, x) : p \in PermsOf(S \ {x})} : x \in S}

\* the permutations of 1..n
Perms(n) == PermsOf(1..n)

\* the outcomes of slice.shuffle(rng) on vec: one permutation for every order the
\* shuffle can leave (the one that keeps equal elements in their order)
Shuffles(vec) ==
    {f \in Perms(Len(vec)) :
        \A i, j \in 1..Len(vec) : (i < j /\ vec[f[i]] = vec[f[j]]) => f[i] < f[j]}

(***************************************************************************)
(* population.rs: a Population is [population, counter]                    *)
(***************************************************************************)
\* impl From<Vec<Individual>> for Population
Population_from(vec) == [population |-> vec, counter |-> 0]

\* Population::len
Population_len(p) == Len(p.population)

\* position of the first element equal to x (0 when there is none): the scan of
\* `for i in self.population.iter_mut()`
FirstIndex(vec, x) ==
    IF \E i \in 1..Len(vec) : vec[i] = x
    THEN CHOOSE i \in 1..Len(vec) : vec[i] = x /\ \A j \in 1..(i - 1) : vec[j] # x
    ELSE 0

\* mutant: a failed scan reports success
Population_immunize_okOnMiss(p) ==
    LET k == FirstIndex(p.population, "Healthy") IN
    IF k # 0
    THEN [err |-> "Ok", pop |-> [p EXCEPT !.population[k] = "Immune"]]
    ELSE [err |-> "Ok", pop |-> p]

\* mutant: the scan converts the last Healthy element it meets, not the first
Population_immunize_last(p) ==
    LET hs == {i \in 1..Len(p.population) : p.population[i] = "Healthy"} IN
    IF hs # {}
    THEN [err |-> "Ok",
          pop |-> [p EXCEPT !.population[CHOOSE i \in hs : \A j \in hs : j <= i] = "Immune"]]
    ELSE [err |-> "NoHealthyLeft", pop |-> p]

\* Population::immunize
Population_immunize(p) ==
    LET k == FirstIndex(p.population, "Healthy") IN
    IF k # 0
    THEN [err |-> "Ok", pop |-> [p EXCEPT !.population[k] = "Immune"]]
    ELSE [err |-> "NoHealthyLeft", pop |-> p]

\* mutant: the scan does not return at the first Immune element and converts all
Population_reverse_immunize_all(p) ==
    IF FirstIndex(p.population, "Immune") # 0
    THEN [err |-> "Ok",
          pop |-> [p EXCEPT !.population =
                      [i \in 1..Len(p.population) |->
                          IF p.population[i] = "Immune" THEN "Healthy" ELSE p.population[i]]]]
    ELSE [err |-> "NoImmuneLeft", pop |-> p]

\* Population::reverse_immunize
Population_reverse_immunize(p) ==
    LET k == FirstIndex(p.population, "Immune") IN
    IF k # 0
    THEN [err |-> "Ok", pop |-> [p EXCEPT !.population[k] = "Healthy"]]
    ELSE [err |-> "NoImmuneLeft", pop |-> p]

\* Population::update: the assert_eq on the lengths, then the replacement
Population_update(p, new_population) ==
    IF Population_len(p) # Len(new_population)
    THEN [panic |-> TRUE, pop |-> p]
    ELSE [panic |-> FALSE, pop |-> [p EXCEPT !.population = new_population]]

\* mutant: the shuffle forgets to restart the iterator
Population_shuffle_keepCounter(p, perm) ==
    [p EXCEPT !.population = [i \in 1..Len(p.population) |-> p.population[perm[i]]]]

\* Population::shuffle, perm being the permutation the rng draws
Population_shuffle(p, perm) ==
    [population |-> [i \in 1..Len(p.population) |-> p.population[perm[i]]],
     counter |-> 0]

\* Population::counting
Population_counting(p, query) == CountIn(p.population, query)

\* Population::counting_all
Population_counting_all(p) == CountsOf(p.population)

\* mutant: the cursor wraps around at the end instead of staying there
Population_next_wrap(p) ==
    IF p.counter < Population_len(p)
    THEN [item |-> p.population[p.counter + 1], pop |-> [p EXCEPT !.counter = @ + 1]]
    ELSE [item |-> "None", pop |-> [p EXCEPT !.counter = 0]]

\* Iterator::next for Population
Population_next(p) ==
    IF p.counter < Population_len(p)
    THEN [item |-> p.population[p.counter + 1], pop |-> [p EXCEPT !.counter = @ + 1]]
    ELSE [item |-> "None", pop |-> p]

(***************************************************************************)
(* The Building collaborator: a building is [capacity, open, occ, name,     *)
(* spreading], occ the occupants in the order they were admitted           *)
(***************************************************************************)
\* the spreading modes, in the order the derived Ord compares them
SpreadingOrder == <<"Everyone", "One", "OneNear">>
Spreading == {SpreadingOrder[i] : i \in 1..Len(SpreadingOrder)}
SpreadingRank(mode) == CHOOSE i \in 1..Len(SpreadingOrder) : SpreadingOrder[i] = mode

\* BuildingBuilder::new(name).with_size(cols, rows).and_is_open().build(), with
\* the name BoardBuilder gives and the default spreading mode
Building_new(capacity, open) ==
    [capacity |-> capacity, open |-> open, occ |-> <<>>,
     name |-> "Defult", spreading |-> "OneNear"]

\* Building::name
Building_name(bld) == bld.name

\* Building::spreading
Building_spreading(bld) == bld.spreading

\* Building::set_spreading
Building_set_spreading(bld, new_spreading) == [bld EXCEPT !.spreading = new_spreading]

\* Building::open
Building_open(bld) == [panic |-> FALSE, building |-> [bld EXCEPT !.open = TRUE]]

\* Building::close: a building that holds somebody cannot be closed
Building_close(bld) ==
    IF bld.occ # <<>> THEN [panic |-> TRUE, building |-> bld]
    ELSE [panic |-> FALSE, building |-> [bld EXCEPT !.open = FALSE]]

\* Building::toggle
Building_toggle(bld) == IF bld.open THEN Building_close(bld) ELSE Building_open(bld)

\* Building::is_full
Building_is_full(bld) == Len(bld.occ) >= bld.capacity

\* Building::is_open
Building_is_open(bld) == bld.open

\* Building::try_push: Err(Sick) for a Sick individual, Err(Full) without room
Building_try_push(bld, i) ==
    IF i = "Sick" THEN [err |-> "Sick", building |-> bld]
    ELSE IF Building_is_full(bld) THEN [err |-> "Full", building |-> bld]
    ELSE [err |-> "Ok", building |-> [bld EXCEPT !.occ = Append(@, i)]]

\* the seats of a building whose Healthy occupant shares it with an infected one
Exposed(bld) ==
    {k \in 1..Len(bld.occ) :
        /\ bld.occ[k] = "Healthy"
        /\ \E j \in 1..Len(bld.occ) : can_infect(bld.occ[j], bld.occ[k])}

\* Building::propagate: the one-day contagion step. Infected occupants move on a
\* stage; `infected` is the set of seats the spreading rule infects, and only an
\* exposed Healthy occupant can be infected
Building_propagate(bld, infected) ==
    [bld EXCEPT !.occ =
        [k \in 1..Len(bld.occ) |->
            CASE bld.occ[k] = "Infected1" -> "Infected2"
              [] bld.occ[k] = "Infected2" -> "Infected3"
              [] bld.occ[k] = "Infected3" -> "Sick"
              [] bld.occ[k] = "Healthy" /\ k \in infected /\ k \in Exposed(bld) -> "Infected1"
              [] OTHER -> bld.occ[k]]]

\* Building::empty: drains the occupants
Building_empty(bld) == [drained |-> bld.occ, building |-> [bld EXCEPT !.occ = <<>>]]

(***************************************************************************)
(* The Recording collaborator: its counting table maps every Individual    *)
(* state to the sequence of its counts, one entry per registered day       *)
(***************************************************************************)
\* Recording::new(population, buildings): day 0 holds the population's counts
Recording_new(pop, blds) == [s \in Individual |-> <<Population_counting(pop, s)>>]

\* CountingTable::days
CountingTable_days(table) == Len(table["Healthy"])

\* the last registered count of a state
LastCount(table, s) == table[s][Len(table[s])]

\* Recording::register(newly_infected, buildings): appends one day's entry to
\* every state; the day's counts follow the disease clock from the day before
Recording_register(table, newly_infected, blds) ==
    IF newly_infected > LastCount(table, "Healthy")
    THEN [panic |-> TRUE, table |-> table]
    ELSE [panic |-> FALSE, table |->
            [s \in Individual |->
                Append(table[s],
                    CASE s = "Healthy" -> LastCount(table, "Healthy") - newly_infected
                      [] s = "Infected1" -> newly_infected
                      [] s = "Infected2" -> LastCount(table, "Infected1")
                      [] s = "Infected3" -> LastCount(table, "Infected2")
                      [] s = "Sick" -> LastCount(table, "Sick") + LastCount(table, "Infected3")
                      [] OTHER -> LastCount(table, "Immune"))]]

\* Recording::immunize: mirrors Population::immunize on the last day's counts
Recording_immunize(table) ==
    IF LastCount(table, "Healthy") = 0
    THEN [err |-> "NoHealthyLeft", table |-> table]
    ELSE [err |-> "Ok", table |->
            [table EXCEPT !["Healthy"][Len(table["Healthy"])] = @ - 1,
                          !["Immune"][Len(table["Immune"])] = @ + 1]]

\* Recording::reverse_immunize
Recording_reverse_immunize(table) ==
    IF LastCount(table, "Immune") = 0
    THEN [err |-> "NoImmuneLeft", table |-> table]
    ELSE [err |-> "Ok", table |->
            [table EXCEPT !["Immune"][Len(table["Immune"])] = @ - 1,
                          !["Healthy"][Len(table["Healthy"])] = @ + 1]]

(***************************************************************************)
(* board.rs: a Board is [population, buildings, inactive, recording,       *)
(* panic], population being a Population                                   *)
(***************************************************************************)
\* buildings.iter().map(|b| b.spreading()).min() and .max(): None without buildings
MinSpreading(blds) ==
    IF blds = <<>> THEN "None"
    ELSE CHOOSE m \in {Building_spreading(blds[k]) : k \in 1..Len(blds)} :
            \A k \in 1..Len(blds) : SpreadingRank(m) <= SpreadingRank(Building_spreading(blds[k]))

MaxSpreading(blds) ==
    IF blds = <<>> THEN "None"
    ELSE CHOOSE m \in {Building_spreading(blds[k]) : k \in 1..Len(blds)} :
            \A k \in 1..Len(blds) : SpreadingRank(m) >= SpreadingRank(Building_spreading(blds[k]))

\* Board::new: the assert_eq on the spreading modes, then the population, the
\* buildings and a fresh recording of them; the inactive set comes empty from
\* Board::default
Board_new(pop, blds) ==
    [population |-> pop, buildings |-> blds, inactive |-> <<>>,
     recording |-> Recording_new(pop, blds),
     panic |-> MinSpreading(blds) # MaxSpreading(blds)]

\* the occupants of all buildings, in building order
RECURSIVE Occupants(_)
Occupants(blds) ==
    IF blds = <<>> THEN <<>> ELSE Head(blds).occ \o Occupants(Tail(blds))

\* mutant: a Sick individual takes the seat like anybody else
RECURSIVE Board_visit_building_admitSick(_, _)
Board_visit_building_admitSick(b, index) ==
    IF ~Building_is_full(b.buildings[index]) /\ Building_is_open(b.buildings[index])
    THEN LET nx == Population_next(b.population) IN
         IF nx.item = "None" THEN b
         ELSE Board_visit_building_admitSick(
                 [b EXCEPT !.population = nx.pop,
                           !.buildings[index].occ = Append(@, nx.item)], index)
    ELSE b

\* mutant: the loop asks whether the building is open, not whether it is full
RECURSIVE Board_visit_building_ignoreFull(_, _)
Board_visit_building_ignoreFull(b, index) ==
    IF Building_is_open(b.buildings[index])
    THEN LET nx == Population_next(b.population) IN
         IF nx.item = "None" THEN b
         ELSE IF nx.item = "Sick"
         THEN Board_visit_building_ignoreFull(
                 [b EXCEPT !.population = nx.pop, !.inactive = Append(@, nx.item)], index)
         ELSE LET pushed == Building_try_push(b.buildings[index], nx.item) IN
              IF pushed.err # "Ok"
              THEN [b EXCEPT !.population = nx.pop, !.panic = TRUE]
              ELSE Board_visit_building_ignoreFull(
                      [b EXCEPT !.population = nx.pop,
                                !.buildings[index] = pushed.building], index)
    ELSE b

\* Board::visit_building: the while loop, one draw per iteration
RECURSIVE Board_visit_building(_, _)
Board_visit_building(b, index) ==
    IF ~Building_is_full(b.buildings[index]) /\ Building_is_open(b.buildings[index])
    THEN LET nx == Population_next(b.population) IN
         IF nx.item = "None" THEN b
         ELSE IF nx.item = "Sick"
         THEN Board_visit_building(
                 [b EXCEPT !.population = nx.pop, !.inactive = Append(@, nx.item)], index)
         ELSE LET pushed == Building_try_push(b.buildings[index], nx.item) IN
              IF pushed.err # "Ok"
              THEN [b EXCEPT !.population = nx.pop, !.panic = TRUE]
              ELSE Board_visit_building(
                      [b EXCEPT !.population = nx.pop,
                                !.buildings[index] = pushed.building], index)
    ELSE b

\* mutant: the loop walks the buildings from the last to the first
RECURSIVE VisitBuildings_lastFirst(_, _)
VisitBuildings_lastFirst(b, index) ==
    IF index > Len(b.buildings) \/ b.panic THEN b
    ELSE VisitBuildings_lastFirst(
            Board_visit_building(b, Len(b.buildings) + 1 - index), index + 1)

\* `for index in 0..self.buildings.len()` of Board::visit
RECURSIVE VisitBuildings(_, _)
VisitBuildings(b, index) ==
    IF index > Len(b.buildings) \/ b.panic THEN b
    ELSE VisitBuildings(Board_visit_building(b, index), index + 1)

\* `self.population.clone()` consumed as an iterator: the elements not yet drawn
Remaining(p) == SubSeq(p.population, p.counter + 1, Len(p.population))

\* mutant: the whole population is sent home again, drawn or not
Board_visit_extendAll(b, perm) ==
    LET shuffled == [b EXCEPT !.population = Population_shuffle(@, perm)]
        visited == VisitBuildings(shuffled, 1)
    IN  IF visited.panic THEN visited
        ELSE [visited EXCEPT !.inactive = @ \o visited.population.population]

\* Board::visit, perm being the permutation the shuffle draws
Board_visit(b, perm) ==
    LET shuffled == [b EXCEPT !.population = Population_shuffle(@, perm)]
        visited == VisitBuildings(shuffled, 1)
    IN  IF visited.panic THEN visited
        ELSE [visited EXCEPT !.inactive = @ \o Remaining(visited.population)]

\* the match of Board::propagate on an inactive individual
AtHome(i) ==
    CASE i = "Infected1" -> "Infected2"
      [] i = "Infected2" -> "Infected3"
      [] i = "Infected3" -> "Sick"
      [] OTHER -> i

\* mutant: the Sick recover at home
Board_propagate_recover(b, infected) ==
    [b EXCEPT !.buildings =
                  [k \in 1..Len(b.buildings) |-> Building_propagate(b.buildings[k], infected[k])],
              !.inactive =
                  [k \in 1..Len(b.inactive) |->
                      IF b.inactive[k] = "Sick" THEN "Healthy" ELSE AtHome(b.inactive[k])]]

\* mutant: the last arm of the match starts the disease over
Board_propagate_relapse(b, infected) ==
    [b EXCEPT !.buildings =
                  [k \in 1..Len(b.buildings) |-> Building_propagate(b.buildings[k], infected[k])],
              !.inactive =
                  [k \in 1..Len(b.inactive) |->
                      IF b.inactive[k] = "Infected3" THEN "Infected1" ELSE AtHome(b.inactive[k])]]

\* mutant: the disease clock stands still at home
Board_propagate_skipHome(b, infected) ==
    [b EXCEPT !.buildings =
                  [k \in 1..Len(b.buildings) |-> Building_propagate(b.buildings[k], infected[k])]]

\* Board::propagate, infected[k] being the seats building k's contagion infects
Board_propagate(b, infected) ==
    [b EXCEPT !.buildings =
                  [k \in 1..Len(b.buildings) |-> Building_propagate(b.buildings[k], infected[k])],
              !.inactive = [k \in 1..Len(b.inactive) |-> AtHome(b.inactive[k])]]

\* mutant: the inactive individuals are counted too
Board_go_home_countAll(b) ==
    LET new_vec == Occupants(b.buildings) \o b.inactive IN
    [newly_infected |-> CountIn(new_vec, "Infected1"),
     board |-> [b EXCEPT
        !.buildings = [k \in 1..Len(b.buildings) |-> Building_empty(b.buildings[k]).building],
        !.inactive = <<>>,
        !.population = Population_from(new_vec)]]

\* mutant: the inactive set comes first in the rebuilt population
Board_go_home_inactiveFirst(b) ==
    LET drained == Occupants(b.buildings) IN
    [newly_infected |-> CountIn(drained, "Infected1"),
     board |-> [b EXCEPT
        !.buildings = [k \in 1..Len(b.buildings) |-> Building_empty(b.buildings[k]).building],
        !.inactive = <<>>,
        !.population = Population_from(b.inactive \o drained)]]

\* mutant: the inactive set is forgotten at home
Board_go_home_loseInactive(b) ==
    LET drained == Occupants(b.buildings) IN
    [newly_infected |-> CountIn(drained, "Infected1"),
     board |-> [b EXCEPT
        !.buildings = [k \in 1..Len(b.buildings) |-> Building_empty(b.buildings[k]).building],
        !.inactive = <<>>,
        !.population = Population_from(drained)]]

\* Board::go_home: drains the buildings, counts the drained Infected1, appends
\* (and so empties) the inactive set and rebuilds the population
Board_go_home(b) ==
    LET drained == Occupants(b.buildings) IN
    [newly_infected |-> CountIn(drained, "Infected1"),
     board |-> [b EXCEPT
        !.buildings = [k \in 1..Len(b.buildings) |-> Building_empty(b.buildings[k]).building],
        !.inactive = <<>>,
        !.population = Population_from(drained \o b.inactive)]]

\* the loops of Board::toggle, Board::close and Board::open: every building of
\* that name, in order; a fatal assertion stops the loop
RECURSIVE ForNamed(_, _, _, _)
ForNamed(b, name, op, k) ==
    IF k > Len(b.buildings) \/ b.panic THEN b
    ELSE IF Building_name(b.buildings[k]) # name THEN ForNamed(b, name, op, k + 1)
    ELSE LET r == CASE op = "toggle" -> Building_toggle(b.buildings[k])
                    [] op = "close" -> Building_close(b.buildings[k])
                    [] op = "open" -> Building_open(b.buildings[k]) IN
         ForNamed([b EXCEPT !.buildings[k] = r.building, !.panic = r.panic], name, op, k + 1)

\* Board::toggle
Board_toggle(b, name) == ForNamed(b, name, "toggle", 1)

\* Board::close
Board_close(b, name) == ForNamed(b, name, "close", 1)

\* Board::open
Board_open(b, name) == ForNamed(b, name, "open", 1)

\* Board::spreading: the mode of the first building
Board_spreading(b) ==
    IF b.buildings = <<>> THEN [panic |-> TRUE, val |-> "None"]
    ELSE [panic |-> FALSE, val |-> Building_spreading(b.buildings[1])]

\* Recording::set_spreading: the mode the recording keeps is no part of its
\* counting table
Recording_set_spreading(table, new_spreading) == table

\* mutant: the loop starts at the second building
Board_set_spreading_skipFirst(b, new_spreading) ==
    [b EXCEPT
        !.buildings = [k \in 1..Len(b.buildings) |->
                          IF k = 1 THEN b.buildings[k]
                          ELSE Building_set_spreading(b.buildings[k], new_spreading)],
        !.recording = Recording_set_spreading(@, new_spreading)]

\* Board::set_spreading
Board_set_spreading(b, new_spreading) ==
    [b EXCEPT
        !.buildings = [k \in 1..Len(b.buildings) |->
                          Building_set_spreading(b.buildings[k], new_spreading)],
        !.recording = Recording_set_spreading(@, new_spreading)]

\* Board::advance_population
Board_advance_population(b, perm, infected) ==
    LET visited == Board_visit(b, perm) IN
    IF visited.panic THEN [newly_infected |-> 0, board |-> visited]
    ELSE Board_go_home(Board_propagate(visited, infected))

\* mutant: the day is registered twice
Board_advance_registerTwice(b, perm, infected) ==
    LET day == Board_advance_population(b, perm, infected)
        r1 == Recording_register(day.board.recording, day.newly_infected, day.board.buildings)
        r2 == Recording_register(r1.table, 0, day.board.buildings)
    IN  IF day.board.panic THEN day.board
        ELSE [day.board EXCEPT !.recording = r2.table, !.panic = r1.panic \/ r2.panic]

\* Board::advance
Board_advance(b, perm, infected) ==
    LET day == Board_advance_population(b, perm, infected)
        reg == Recording_register(day.board.recording, day.newly_infected, day.board.buildings)
    IN  IF day.board.panic THEN day.board
        ELSE [day.board EXCEPT !.recording = reg.table, !.panic = reg.panic]

\* mutant: the recording is told first, the population asked afterwards
Board_immunize_recordingFirst(b) ==
    LET r == Recording_immunize(b.recording) IN
    IF r.err # "Ok" THEN [err |-> r.err, board |-> b]
    ELSE LET p == Population_immunize(b.population) IN
         IF p.err # "Ok" THEN [err |-> p.err, board |-> [b EXCEPT !.recording = r.table]]
         ELSE [err |-> "Ok", board |-> [b EXCEPT !.population = p.pop, !.recording = r.table]]

\* Board::immunize: the population first, then the recording (`?` returns early)
Board_immunize(b) ==
    LET p == Population_immunize(b.population) IN
    IF p.err # "Ok" THEN [err |-> p.err, board |-> b]
    ELSE LET r == Recording_immunize(b.recording) IN
         IF r.err # "Ok" THEN [err |-> r.err, board |-> [b EXCEPT !.population = p.pop]]
         ELSE [err |-> "Ok", board |-> [b EXCEPT !.population = p.pop, !.recording = r.table]]

\* Board::reverse_immunize
Board_reverse_immunize(b) ==
    LET p == Population_reverse_immunize(b.population) IN
    IF p.err # "Ok" THEN [err |-> p.err, board |-> b]
    ELSE LET r == Recording_reverse_immunize(b.recording) IN
         IF r.err # "Ok" THEN [err |-> r.err, board |-> [b EXCEPT !.population = p.pop]]
         ELSE [err |-> "Ok", board |-> [b EXCEPT !.population = p.pop, !.recording = r.table]]

\* the seats each building's contagion may infect on a visited board
InfectionChoices(b) ==
    {f \in [1..Len(b.buildings) -> SUBSET (1..MaxCap)] :
        \A k \in 1..Len(b.buildings) : f[k] \subseteq Exposed(b.buildings[k])}

\* every board one advance() can leave, over the shuffles and the contagion
AdvanceOutcomes(b) ==
    IF b.panic THEN {b}
    ELSE UNION {{Board_advance(b, perm, infected) :
                    infected \in InfectionChoices(Board_visit(b, perm))} :
                perm \in Shuffles(b.population.population)}

\* `for _ in 0..num_stages { self.advance(); }` on the set of possible boards
RECURSIVE AdvanceLoop(_, _, _)
AdvanceLoop(boards, i, num_stages) ==
    IF i >= num_stages THEN boards
    ELSE AdvanceLoop(UNION {AdvanceOutcomes(b) : b \in boards}, i + 1, num_stages)

\* mutant: the loop runs over 1..num_stages
Board_advance_many_fromOne(b, num_stages) == AdvanceLoop({b}, 1, num_stages)

\* Board::advance_many: the boards it can leave
Board_advance_many(b, num_stages) == AdvanceLoop({b}, 0, num_stages)

\* Board::counting_table
Board_counting_table(b) == b.recording

(***************************************************************************)
(* simulation.rs: a Simulation is [board, report_plan], a ReportPlan is    *)
(* [num_simulations, days], a Report is the sequence of its counting       *)
(* tables                                                                  *)
(***************************************************************************)
\* mutant: the board is cloned once, before the loop, and every replicate goes on
\* from the board the one before it has reached
Simulation_clone_carried(s, replicates) ==
    IF replicates = <<>> THEN s.board ELSE replicates[Len(replicates)].board

\* `let mut board = self.board.clone()` of Simulation::run: the board a replicate
\* starts from, whatever the replicates before it have done
Simulation_clone(s, replicates) == s.board

\* one more turn of the loop of Simulation::run on a run [panic, counting_tables]:
\* the clone of the template, its advance_many, the push of its counting table
Replicate(s, run) ==
    IF run.panic THEN {run}
    ELSE {IF b.panic
          THEN [run EXCEPT !.panic = TRUE]
          ELSE [run EXCEPT !.counting_tables = Append(@, Board_counting_table(b))] :
          b \in Board_advance_many(s.board, s.report_plan.days)}

\* `for _ in 0..num_simulations` of Simulation::run, on the set of possible runs
RECURSIVE RunLoop(_, _, _)
RunLoop(s, runs, i) ==
    IF i >= s.report_plan.num_simulations THEN runs
    ELSE RunLoop(s, UNION {Replicate(s, run) : run \in runs}, i + 1)

\* mutant: the loop runs over 1..num_simulations
Simulation_run_fromOne(s) == RunLoop(s, {[panic |-> FALSE, counting_tables |-> <<>>]}, 1)

\* Simulation::run: the reports it can return
Simulation_run(s) == RunLoop(s, {[panic |-> FALSE, counting_tables |-> <<>>]}, 0)

\* Individual::iter(): the states in the order the enum declares them
IndividualOrder == <<"Healthy", "Infected1", "Infected2", "Infected3", "Sick", "Immune">>

\* Array2::from(&CountingTable): one row per state in the order of the enum, one
\* column per day
Array2_from(table) == [row \in 1..Len(IndividualOrder) |-> table[IndividualOrder[row]]]

\* an average::Variance is modelled by the samples it has received, in order

RECURSIVE Sum(_)
Sum(v) == IF v = <<>> THEN 0 ELSE Head(v) + Sum(Tail(v))

\* Variance::mean, as the fraction num / den
Variance_mean(v) == [num |-> Sum(v), den |-> Len(v)]

\* the square of Variance::error, the sample variance over the number of samples,
\* as the fraction num / den
Variance_error2(v) ==
    [num |-> Len(v) * Sum([k \in 1..Len(v) |-> v[k] * v[k]]) - Sum(v) * Sum(v),
     den |-> Len(v) * Len(v) * (Len(v) - 1)]

\* equality of two fractions
SameFraction(a, b) == a.num * b.den = b.num * a.den

\* mutant: every cell of a row is fed with the first day
Report_average_counting_table_firstDay(counting_tables) ==
    IF counting_tables = <<>>
    THEN [panic |-> FALSE, val |-> [row \in 1..Len(IndividualOrder) |-> <<>>]]
    ELSE LET days == CountingTable_days(counting_tables[1]) IN
         IF \E r \in 1..Len(counting_tables) : CountingTable_days(counting_tables[r]) < days
         THEN [panic |-> TRUE, val |-> <<>>]
         ELSE [panic |-> FALSE, val |->
                 [row \in 1..Len(IndividualOrder) |->
                     [col \in 1..days |->
                         [r \in 1..Len(counting_tables) |->
                             Array2_from(counting_tables[r])[row][1]]]]]

\* Report::average_counting_table: 6 rows without columns for the empty report,
\* otherwise the cell [row, col] collects counting_table[[row, col]] of every
\* table, the days being those of the first; an index past a shorter table panics
Report_average_counting_table(counting_tables) ==
    IF counting_tables = <<>>
    THEN [panic |-> FALSE, val |-> [row \in 1..Len(IndividualOrder) |-> <<>>]]
    ELSE LET days == CountingTable_days(counting_tables[1]) IN
         IF \E r \in 1..Len(counting_tables) : CountingTable_days(counting_tables[r]) < days
         THEN [panic |-> TRUE, val |-> <<>>]
         ELSE [panic |-> FALSE, val |->
                 [row \in 1..Len(IndividualOrder) |->
                     [col \in 1..days |->
                         [r \in 1..Len(counting_tables) |->
                             Array2_from(counting_tables[r])[row][col]]]]]

\* Report::healthy: the Healthy series of every table, in order
Report_healthy(counting_tables) ==
    [r \in 1..Len(counting_tables) |-> counting_tables[r]["Healthy"]]

\* mutant: the series are returned as they are, a row per replicate
Report_healthy_transpose_asIs(counting_tables) ==
    IF counting_tables = <<>> THEN [panic |-> TRUE, val |-> <<>>]
    ELSE [panic |-> FALSE, val |-> Report_healthy(counting_tables)]

\* Report::healthy_transpose: a row per day of the first table (`[0]` panics on
\* the empty report), the row of a day holding that day of every series
Report_healthy_transpose(counting_tables) ==
    IF counting_tables = <<>> THEN [panic |-> TRUE, val |-> <<>>]
    ELSE LET healthy_all == Report_healthy(counting_tables)
             days == CountingTable_days(counting_tables[1])
         IN  IF \E r \in 1..Len(healthy_all) : Len(healthy_all[r]) < days
             THEN [panic |-> TRUE, val |-> <<>>]
             ELSE [panic |-> FALSE, val |->
                     [day \in 1..days |-> [r \in 1..Len(healthy_all) |-> healthy_all[r][day]]]]

\* Report::average_healthy: as healthy_transpose, every row collected into a
\* Variance
Report_average_healthy(counting_tables) ==
    IF counting_tables = <<>> THEN [panic |-> TRUE, val |-> <<>>]
    ELSE LET healthy_all == Report_healthy(counting_tables)
             days == CountingTable_days(counting_tables[1])
         IN  IF \E r \in 1..Len(healthy_all) : Len(healthy_all[r]) < days
             THEN [panic |-> TRUE, val |-> <<>>]
             ELSE [panic |-> FALSE, val |->
                     [day \in 1..days |-> [r \in 1..Len(healthy_all) |-> healthy_all[r][day]]]]

\* Report::healthy_last: the last value of every series (`expect` panics on an
\* empty one)
Report_healthy_last(counting_tables) ==
    LET healthy_all == Report_healthy(counting_tables) IN
    IF \E r \in 1..Len(healthy_all) : healthy_all[r] = <<>>
    THEN [panic |-> TRUE, val |-> <<>>]
    ELSE [panic |-> FALSE, val |->
            [r \in 1..Len(healthy_all) |-> healthy_all[r][Len(healthy_all[r])]]]

(***************************************************************************)
(* State                                                                   *)
(***************************************************************************)
\* the board the variables hold
Board ==
    [population |-> [population |-> population, counter |-> counter],
     buildings |-> buildings, inactive |-> inactive,
     recording |-> recording, panic |-> panic]

SetBoard(b) ==
    /\ population' = b.population.population
    /\ counter' = b.population.counter
    /\ buildings' = b.buildings
    /\ inactive' = b.inactive
    /\ recording' = b.recording
    /\ panic' = b.panic

\* the population the variables hold
Pop == [population |-> population, counter |-> counter]

SetPop(p) ==
    /\ population' = p.population
    /\ counter' = p.counter

NoCounts == [s \in Individual |-> 0]
Returned(tag, val) == [tag |-> tag, val |-> val, counts |-> NoCounts]

\* individuals on the board, wherever they are
People(b) == Population_len(b.population) + Len(b.inactive) + Len(Occupants(b.buildings))

\* what an operation found on the board: were the buildings and the inactive set
\* empty, was no Sick individual inside a building, how long was the population;
\* `op` and `counts` are kept by the Population on its own, see Vaccinated
PreOf(b) ==
    [vacant |-> Occupants(b.buildings) = <<>> /\ b.inactive = <<>>,
     sickFree |-> CountIn(Occupants(b.buildings), "Sick") = 0,
     len |-> Population_len(b.population),
     op |-> "none", counts |-> NoCounts]

NoPre == [vacant |-> TRUE, sickFree |-> TRUE, len |-> 0, op |-> "none", counts |-> NoCounts]
NoDraws == [drawn |-> <<>>, counts |-> NoCounts, calls |-> 0, shuffled |-> FALSE, clean |-> FALSE]
NoMany == [start |-> <<>>, n |-> 0, reach |-> {}]
NoSim == [pc |-> "none", report_plan |-> [num_simulations |-> 0, days |-> 0],
          replicates |-> <<>>, counting_tables |-> <<>>, draw |-> <<>>]

\* the buildings a board is built with: one open building, one closed building,
\* or a first building of capacity 1, open or closed, followed by an open one
BuildingLayouts ==
    {<<Building_new(c, TRUE)>> : c \in 1..MaxCap}
    \cup {<<Building_new(1, FALSE)>>}
    \cup {<<Building_new(1, o), Building_new(MaxCap - 1, TRUE)>> : o \in BOOLEAN}

\* BoardBuilder::build: the population in the order Healthy, Infected1, Infected2,
\* Infected3, Sick, Immune
SortedPopulations ==
    {v \in SeqsUpTo(Individual, MaxPop) :
        \A i \in 1..(Len(v) - 1) :
            \/ v[i] = v[i + 1]
            \/ v[i] = "Healthy"
            \/ v[i + 1] = "Immune"
            \/ (v[i] = "Infected1" /\ v[i + 1] \in {"Infected2", "Infected3", "Sick"})
            \/ (v[i] = "Infected2" /\ v[i + 1] \in {"Infected3", "Sick"})
            \/ (v[i] = "Infected3" /\ v[i + 1] = "Sick")}

(***************************************************************************)
(* The board: Init is Board::new, the actions are its public methods       *)
(***************************************************************************)
Init ==
    /\ \E v \in SortedPopulations : \E blds \in BuildingLayouts :
          LET b == Board_new(Population_from(v), blds) IN
          /\ population = b.population.population
          /\ counter = b.population.counter
          /\ buildings = b.buildings
          /\ inactive = b.inactive
          /\ recording = b.recording
          /\ panic = b.panic
    /\ lastOp = "new"
    /\ ret = Returned("Unit", 0)
    /\ pre = NoPre
    /\ draws = NoDraws
    /\ many = NoMany
    /\ sim = NoSim

Visit ==
    /\ ~panic
    /\ People(Board) <= MaxPop
    /\ \E perm \in Shuffles(population) : SetBoard(Board_visit(Board, perm))
    /\ lastOp' = "visit"
    /\ ret' = Returned("Unit", 0)
    /\ UNCHANGED <<draws, many>>
    /\ pre' = PreOf(Board)
    /\ UNCHANGED sim

Propagate ==
    /\ ~panic
    /\ \E infected \in InfectionChoices(Board) : SetBoard(Board_propagate(Board, infected))
    /\ lastOp' = "propagate"
    /\ ret' = Returned("Unit", 0)
    /\ UNCHANGED <<draws, many>>
    /\ pre' = PreOf(Board)
    /\ UNCHANGED sim

GoHome ==
    /\ ~panic
    /\ LET r == Board_go_home(Board) IN
          /\ SetBoard(r.board)
          /\ ret' = Returned("usize", r.newly_infected)
    /\ lastOp' = "go_home"
    /\ UNCHANGED <<draws, many>>
    /\ pre' = PreOf(Board)
    /\ UNCHANGED sim

AdvancePopulation ==
    /\ ~panic
    /\ People(Board) <= MaxPop
    /\ \E perm \in Shuffles(population) :
         \E infected \in InfectionChoices(Board_visit(Board, perm)) :
            LET r == Board_advance_population(Board, perm, infected) IN
            /\ SetBoard(r.board)
            /\ ret' = Returned("usize", r.newly_infected)
    /\ lastOp' = "advance_population"
    /\ UNCHANGED <<draws, many>>
    /\ pre' = PreOf(Board)
    /\ UNCHANGED sim

Advance ==
    /\ ~panic
    /\ People(Board) <= MaxPop
    /\ CountingTable_days(recording) <= MaxDays
    /\ \E perm \in Shuffles(population) :
         \E infected \in InfectionChoices(Board_visit(Board, perm)) :
            SetBoard(Board_advance(Board, perm, infected))
    /\ lastOp' = "advance"
    /\ ret' = Returned("Unit", 0)
    /\ many' = [many EXCEPT !.n = @ + 1]
    /\ pre' = PreOf(Board)
    /\ UNCHANGED draws
    /\ UNCHANGED sim

Immunize ==
    /\ ~panic
    /\ LET r == Board_immunize(Board) IN
          /\ SetBoard(r.board)
          /\ ret' = Returned(r.err, 0)
    /\ lastOp' = "immunize"
    /\ UNCHANGED <<draws, many>>
    /\ pre' = PreOf(Board)
    /\ UNCHANGED sim

ReverseImmunize ==
    /\ ~panic
    /\ LET r == Board_reverse_immunize(Board) IN
          /\ SetBoard(r.board)
          /\ ret' = Returned(r.err, 0)
    /\ lastOp' = "reverse_immunize"
    /\ UNCHANGED <<draws, many>>
    /\ pre' = PreOf(Board)
    /\ UNCHANGED sim

\* the days of a board: advance() and advance_population()
Next ==
    \/ AdvancePopulation
    \/ Advance

Spec == Init /\ [][Next]_vars

\* the days of a board, with vaccinations between them
NextVaccine ==
    \/ AdvancePopulation
    \/ Advance
    \/ Immunize
    \/ ReverseImmunize

SpecVaccine == Init /\ [][NextVaccine]_vars

\* the three steps of a day, called one by one
NextSteps ==
    \/ Visit
    \/ Propagate
    \/ GoHome
    \/ AdvancePopulation

SpecSteps == Init /\ [][NextSteps]_vars

\* the three steps of a day called one by one, and whole days
NextCycle ==
    \/ Visit
    \/ Propagate
    \/ GoHome
    \/ Advance

SpecCycle == Init /\ [][NextCycle]_vars

(***************************************************************************)
(* advance_many against consecutive advance() calls: `many` holds the      *)
(* board the calls started from, their number and every board they can     *)
(* have left                                                               *)
(***************************************************************************)
InitMany ==
    /\ \E v \in SortedPopulations : \E blds \in BuildingLayouts :
          LET b == Board_new(Population_from(v), blds) IN
          /\ population = b.population.population
          /\ counter = b.population.counter
          /\ buildings = b.buildings
          /\ inactive = b.inactive
          /\ recording = b.recording
          /\ panic = b.panic
          /\ many = [start |-> b, n |-> 0, reach |-> {b}]
    /\ lastOp = "new"
    /\ ret = Returned("Unit", 0)
    /\ pre = NoPre
    /\ draws = NoDraws
    /\ sim = NoSim

\* one more advance() call
ManyAdvance ==
    /\ ~panic
    /\ many.n < MaxDays
    /\ CountingTable_days(recording) <= MaxDays
    /\ many' = [many EXCEPT !.n = @ + 1,
                            !.reach = UNION {AdvanceOutcomes(b) : b \in many.reach}]
    /\ \E perm \in Shuffles(population) :
         \E infected \in InfectionChoices(Board_visit(Board, perm)) :
            SetBoard(Board_advance(Board, perm, infected))
    /\ lastOp' = "advance"
    /\ ret' = Returned("Unit", 0)
    /\ UNCHANGED <<pre, draws>>
    /\ UNCHANGED sim

\* a vaccination between the days: the calls are counted afresh from the new board
ManyImmunize ==
    /\ ~panic
    /\ LET r == Board_immunize(Board) IN
          /\ SetBoard(r.board)
          /\ ret' = Returned(r.err, 0)
          /\ many' = [start |-> r.board, n |-> 0, reach |-> {r.board}]
    /\ lastOp' = "immunize"
    /\ UNCHANGED <<pre, draws>>
    /\ UNCHANGED sim

NextMany ==
    \/ ManyAdvance
    \/ ManyImmunize

SpecMany == InitMany /\ [][NextMany]_vars

(***************************************************************************)
(* A Population on its own: Init is Population::from, the actions are its  *)
(* methods; `draws` records what next() returned since the last shuffle    *)
(***************************************************************************)
\* the vectors update() is called with
UpdateVecs == SeqsUpTo({"Healthy", "Sick"}, MaxPop)

InitPop ==
    /\ population \in SeqsUpTo(Individual, MaxPop)
    /\ counter = 0
    /\ buildings = <<>>
    /\ inactive = <<>>
    /\ recording = [s \in Individual |-> <<>>]
    /\ panic = FALSE
    /\ lastOp = "from"
    /\ ret = Returned("Unit", 0)
    /\ draws = [drawn |-> <<>>, counts |-> CountsOf(population), calls |-> 0,
                shuffled |-> FALSE, clean |-> TRUE]
    /\ pre = NoPre
    /\ many = NoMany
    /\ sim = NoSim

\* the history once the sequence was changed between the draws
Dirty(changed) == IF changed THEN NoDraws ELSE draws

\* a successful immunize() remembers the counts it found; the reverse_immunize()
\* called right after it finds them there
Vaccinated(counts) == [NoPre EXCEPT !.op = "immunize", !.counts = counts]
Reversed == IF pre.op = "immunize" THEN [pre EXCEPT !.op = "immunize, reverse_immunize"] ELSE NoPre

PopShuffle ==
    /\ ~panic
    /\ \E perm \in Shuffles(population) : SetPop(Population_shuffle(Pop, perm))
    /\ draws' = [drawn |-> <<>>, counts |-> CountsOf(population), calls |-> 0,
                 shuffled |-> TRUE, clean |-> TRUE]
    /\ lastOp' = "shuffle"
    /\ ret' = Returned("Unit", 0)
    /\ pre' = NoPre
    /\ UNCHANGED <<buildings, inactive, recording, panic, many>>
    /\ UNCHANGED sim

PopNext ==
    /\ ~panic
    /\ draws.calls <= Len(population) + 1
    /\ LET r == Population_next(Pop) IN
          /\ SetPop(r.pop)
          /\ ret' = Returned(r.item, 0)
          /\ draws' = IF draws.clean
                      THEN [draws EXCEPT !.calls = @ + 1,
                                         !.drawn = IF r.item = "None" THEN @ ELSE Append(@, r.item)]
                      ELSE draws
    /\ lastOp' = "next"
    /\ pre' = NoPre
    /\ UNCHANGED <<buildings, inactive, recording, panic, many>>
    /\ UNCHANGED sim

PopImmunize ==
    /\ ~panic
    /\ LET r == Population_immunize(Pop) IN
          /\ SetPop(r.pop)
          /\ ret' = Returned(r.err, 0)
          /\ draws' = Dirty(r.pop # Pop)
          /\ pre' = IF r.err = "Ok" THEN Vaccinated(CountsOf(population)) ELSE NoPre
    /\ lastOp' = "immunize"
    /\ UNCHANGED <<buildings, inactive, recording, panic, many>>
    /\ UNCHANGED sim

PopReverseImmunize ==
    /\ ~panic
    /\ LET r == Population_reverse_immunize(Pop) IN
          /\ SetPop(r.pop)
          /\ ret' = Returned(r.err, 0)
          /\ draws' = Dirty(r.pop # Pop)
    /\ pre' = Reversed
    /\ lastOp' = "reverse_immunize"
    /\ UNCHANGED <<buildings, inactive, recording, panic, many>>
    /\ UNCHANGED sim

PopUpdate ==
    /\ ~panic
    /\ \E new_population \in UpdateVecs :
          LET r == Population_update(Pop, new_population) IN
          /\ SetPop(r.pop)
          /\ panic' = r.panic
          /\ draws' = Dirty(r.pop # Pop)
    /\ lastOp' = "update"
    /\ ret' = Returned("Unit", 0)
    /\ pre' = NoPre
    /\ UNCHANGED <<buildings, inactive, recording, many>>
    /\ UNCHANGED sim

PopCounting ==
    /\ ~panic
    /\ \E query \in Individual : ret' = Returned("usize", Population_counting(Pop, query))
    /\ lastOp' = "counting"
    /\ pre' = NoPre
    /\ UNCHANGED <<population, counter, buildings, inactive, recording, panic, draws, many>>
    /\ UNCHANGED sim

PopCountingAll ==
    /\ ~panic
    /\ ret' = [tag |-> "HashMap", val |-> 0, counts |-> Population_counting_all(Pop)]
    /\ lastOp' = "counting_all"
    /\ pre' = NoPre
    /\ UNCHANGED <<population, counter, buildings, inactive, recording, panic, draws, many>>
    /\ UNCHANGED sim

NextPop ==
    \/ PopShuffle
    \/ PopNext
    \/ PopImmunize
    \/ PopReverseImmunize
    \/ PopUpdate
    \/ PopCounting
    \/ PopCountingAll

SpecPop == InitPop /\ [][NextPop]_vars

(***************************************************************************)
(* A board built on buildings that already hold individuals, as the tests  *)
(* of board.rs build them, and its first day                               *)
(***************************************************************************)
\* the buildings Board::new is given: those of BuildingLayouts with any occupants
\* a building admits, within its capacity
FilledLayouts ==
    UNION {{[k \in 1..Len(l) |-> [l[k] EXCEPT !.occ = occs[k]]] :
              occs \in {f \in [1..Len(l) -> SeqsUpTo(Individual \ {"Sick"}, MaxCap)] :
                           \A k \in 1..Len(l) : Len(f[k]) <= l[k].capacity}} :
           l \in BuildingLayouts}

InitFilled ==
    /\ \E v \in SortedPopulations : \E blds \in FilledLayouts :
          LET b == Board_new(Population_from(v), blds) IN
          /\ population = b.population.population
          /\ counter = b.population.counter
          /\ buildings = b.buildings
          /\ inactive = b.inactive
          /\ recording = b.recording
          /\ panic = b.panic
    /\ lastOp = "new"
    /\ ret = Returned("Unit", 0)
    /\ pre = NoPre
    /\ draws = NoDraws
    /\ many = NoMany
    /\ sim = NoSim

\* advance_population() on the board as it was built
FirstAdvancePopulation ==
    /\ ~panic
    /\ lastOp = "new"
    /\ \E perm \in Shuffles(population) :
         \E infected \in InfectionChoices(Board_visit(Board, perm)) :
            LET r == Board_advance_population(Board, perm, infected) IN
            /\ SetBoard(r.board)
            /\ ret' = Returned("usize", r.newly_infected)
    /\ lastOp' = "advance_population"
    /\ pre' = PreOf(Board)
    /\ UNCHANGED <<draws, many, sim>>

NextFilled == FirstAdvancePopulation

SpecFilled == InitFilled /\ [][NextFilled]_vars

(***************************************************************************)
(* The default board, to scale: Population::default() is 98 Healthy        *)
(* individuals followed by 2 Infected1, Board::default() gives it 8        *)
(* buildings with room for 76 of the 100; the test `advance` immunizes 96  *)
(* of the 98 and lets the days pass                                        *)
(***************************************************************************)
\* the Healthy individuals of the default population: the 98, to scale
DefaultHealthy == MaxPop

\* the immunize() calls of the test: the 96, fewer than there are Healthy ones
TestImmunizations == DefaultHealthy - 1

\* Population::default
Population_default ==
    Population_from([i \in 1..DefaultHealthy |-> "Healthy"] \o <<"Infected1", "Infected1">>)

\* the buildings of Board::default, to scale: open, with room for a part of the
\* population only
DefaultBuildings == <<Building_new(MaxCap, TRUE), Building_new(1, TRUE)>>

\* Board::default
Board_default ==
    [population |-> Population_default, buildings |-> DefaultBuildings, inactive |-> <<>>,
     recording |-> Recording_new(Population_default, DefaultBuildings), panic |-> FALSE]

InitDefault ==
    /\ population = Board_default.population.population
    /\ counter = Board_default.population.counter
    /\ buildings = Board_default.buildings
    /\ inactive = Board_default.inactive
    /\ recording = Board_default.recording
    /\ panic = Board_default.panic
    /\ lastOp = "default"
    /\ ret = Returned("Unit", 0)
    /\ pre = NoPre
    /\ draws = NoDraws
    /\ many = NoMany
    /\ sim = NoSim

\* immunize(), before the days as in the test or between them; a call that
\* failed is not repeated
DefaultImmunize ==
    /\ ~panic
    /\ ret.tag \in {"Unit", "Ok"}
    /\ LET r == Board_immunize(Board) IN
          /\ SetBoard(r.board)
          /\ ret' = Returned(r.err, 0)
    /\ lastOp' = "immunize"
    /\ pre' = PreOf(Board)
    /\ UNCHANGED <<draws, many, sim>>

\* then the days
DefaultAdvance ==
    /\ ~panic
    /\ CountingTable_days(recording) <= MaxDays
    /\ \E perm \in Shuffles(population) :
         \E infected \in InfectionChoices(Board_visit(Board, perm)) :
            SetBoard(Board_advance(Board, perm, infected))
    /\ lastOp' = "advance"
    /\ ret' = Returned("Unit", 0)
    /\ many' = [many EXCEPT !.n = @ + 1]
    /\ pre' = PreOf(Board)
    /\ UNCHANGED <<draws, sim>>

NextDefault ==
    \/ DefaultImmunize
    \/ DefaultAdvance

SpecDefault == InitDefault /\ [][NextDefault]_vars

(***************************************************************************)
(* A board under its whole public interface: Board::new on buildings of    *)
(* any names and spreading modes, then days, vaccinations, openings and    *)
(* closings, and changes of the spreading mode                             *)
(***************************************************************************)
BuildingNames == {"Bakery", "School"}

\* a name no building of the board has
NoSuchName == "Gym"

\* the buildings Board::new is given: those of BuildingLayouts under any names
\* and any spreading modes
SpreadingLayouts ==
    UNION {{[k \in 1..Len(l) |->
                [l[k] EXCEPT !.name = names[k], !.spreading = modes[k]]] :
              names \in [1..Len(l) -> BuildingNames], modes \in [1..Len(l) -> Spreading]} :
           l \in BuildingLayouts}

\* the populations the board starts from: Healthy individuals and Infected1 ones
SpreadingPopulations ==
    {v \in SortedPopulations : \A i \in 1..Len(v) : v[i] \in {"Healthy", "Infected1"}}

InitSpreading ==
    /\ \E v \in SpreadingPopulations : \E blds \in SpreadingLayouts :
          LET b == Board_new(Population_from(v), blds) IN
          /\ population = b.population.population
          /\ counter = b.population.counter
          /\ buildings = b.buildings
          /\ inactive = b.inactive
          /\ recording = b.recording
          /\ panic = b.panic
    /\ lastOp = "new"
    /\ ret = Returned("Unit", 0)
    /\ pre = NoPre
    /\ draws = NoDraws
    /\ many = NoMany
    /\ sim = NoSim

Toggle ==
    /\ ~panic
    /\ \E name \in BuildingNames \cup {NoSuchName} : SetBoard(Board_toggle(Board, name))
    /\ lastOp' = "toggle"
    /\ ret' = Returned("Unit", 0)
    /\ pre' = PreOf(Board)
    /\ UNCHANGED <<draws, many, sim>>

Close ==
    /\ ~panic
    /\ \E name \in BuildingNames \cup {NoSuchName} : SetBoard(Board_close(Board, name))
    /\ lastOp' = "close"
    /\ ret' = Returned("Unit", 0)
    /\ pre' = PreOf(Board)
    /\ UNCHANGED <<draws, many, sim>>

Open ==
    /\ ~panic
    /\ \E name \in BuildingNames \cup {NoSuchName} : SetBoard(Board_open(Board, name))
    /\ lastOp' = "open"
    /\ ret' = Returned("Unit", 0)
    /\ pre' = PreOf(Board)
    /\ UNCHANGED <<draws, many, sim>>

\* set_spreading(new_spreading); pre.op remembers the mode that was asked for
SetSpreading ==
    /\ ~panic
    /\ \E new_spreading \in Spreading :
          /\ SetBoard(Board_set_spreading(Board, new_spreading))
          /\ pre' = [PreOf(Board) EXCEPT !.op = new_spreading]
    /\ lastOp' = "set_spreading"
    /\ ret' = Returned("Unit", 0)
    /\ UNCHANGED <<draws, many, sim>>

NextSpreading ==
    \/ Advance
    \/ Immunize
    \/ Toggle
    \/ Close
    \/ Open
    \/ SetSpreading

SpecSpreading == InitSpreading /\ [][NextSpreading]_vars

(***************************************************************************)
(* The test `advance`: the default board, to scale, its immunize() calls   *)
(* that leave two Healthy individuals, and its 8 and 10 days               *)
(***************************************************************************)
\* the Healthy individuals the immunize() calls of the test leave
TestHealthyLeft == 98 - 96

\* the immunize() calls of the test, to scale
EpidemicImmunizations == MaxPop - 1

\* board.advance_many(8)
TestWarmUp == 8

\* for _ in 0..10 { board.advance(); .. }
TestDays == 10

\* Population::default, to scale
EpidemicPopulation ==
    Population_from([i \in 1..(EpidemicImmunizations + TestHealthyLeft) |-> "Healthy"]
                       \o <<"Infected1", "Infected1">>)

\* Board::default, to scale
EpidemicBoard ==
    [population |-> EpidemicPopulation, buildings |-> DefaultBuildings, inactive |-> <<>>,
     recording |-> Recording_new(EpidemicPopulation, DefaultBuildings), panic |-> FALSE]

InitEpidemic ==
    /\ population = EpidemicBoard.population.population
    /\ counter = EpidemicBoard.population.counter
    /\ buildings = EpidemicBoard.buildings
    /\ inactive = EpidemicBoard.inactive
    /\ recording = EpidemicBoard.recording
    /\ panic = EpidemicBoard.panic
    /\ lastOp = "default"
    /\ ret = Returned("Unit", 0)
    /\ pre = NoPre
    /\ draws = NoDraws
    /\ many = NoMany
    /\ sim = NoSim

\* for _ in 0..96 { board.immunize().unwrap(); }
EpidemicImmunize ==
    /\ ~panic
    /\ lastOp \in {"default", "immunize"}
    /\ CountIn(population, "Immune") < EpidemicImmunizations
    /\ LET r == Board_immunize(Board) IN
          /\ SetBoard([r.board EXCEPT !.panic = @ \/ r.err # "Ok"])
          /\ ret' = Returned(r.err, 0)
    /\ lastOp' = "immunize"
    /\ pre' = PreOf(Board)
    /\ UNCHANGED <<draws, many, sim>>

\* the days of advance_many(8) and of the loop after it, many.n counting them
EpidemicAdvance ==
    /\ ~panic
    /\ CountIn(population, "Immune") = EpidemicImmunizations
    /\ many.n < TestWarmUp + TestDays
    /\ \E perm \in Shuffles(population) :
         \E infected \in InfectionChoices(Board_visit(Board, perm)) :
            SetBoard(Board_advance(Board, perm, infected))
    /\ lastOp' = "advance"
    /\ ret' = Returned("Unit", 0)
    /\ many' = [many EXCEPT !.n = @ + 1]
    /\ pre' = PreOf(Board)
    /\ UNCHANGED <<draws, sim>>

NextEpidemic ==
    \/ EpidemicImmunize
    \/ EpidemicAdvance

SpecEpidemic == InitEpidemic /\ [][NextEpidemic]_vars

(***************************************************************************)
(* The steps of a day called one by one on named buildings, which are      *)
(* opened and closed between the steps                                     *)
(***************************************************************************)
\* the buildings of BuildingLayouts, the first called Bakery, the second School
NamedLayouts ==
    {[k \in 1..Len(l) |-> [l[k] EXCEPT !.name = IF k = 1 THEN "Bakery" ELSE "School"]] :
        l \in BuildingLayouts}

InitDay ==
    /\ \E v \in SortedPopulations : \E blds \in NamedLayouts :
          LET b == Board_new(Population_from(v), blds) IN
          /\ population = b.population.population
          /\ counter = b.population.counter
          /\ buildings = b.buildings
          /\ inactive = b.inactive
          /\ recording = b.recording
          /\ panic = b.panic
    /\ lastOp = "new"
    /\ ret = Returned("Unit", 0)
    /\ pre = NoPre
    /\ draws = NoDraws
    /\ many = NoMany
    /\ sim = NoSim

NextDay ==
    \/ Visit
    \/ Propagate
    \/ GoHome
    \/ Open
    \/ Close

SpecDay == InitDay /\ [][NextDay]_vars

(***************************************************************************)
(* A Simulation: Init is SimulationBuilder::build, the board variables     *)
(* hold its template board; run() leaves its Report in sim                 *)
(***************************************************************************)
\* BoardBuilder::build: every building is built open
BuilderLayouts == {l \in BuildingLayouts : \A k \in 1..Len(l) : Building_is_open(l[k])}

\* the plans a Simulation is built with
ReportPlans == [num_simulations : 0..MaxSims, days : 0..MaxDays]

\* the Simulation the variables hold
Simulation == [board |-> Board, report_plan |-> sim.report_plan]

InitSim ==
    /\ \E v \in SortedPopulations : \E blds \in BuilderLayouts :
          LET b == Board_new(Population_from(v), blds) IN
          /\ population = b.population.population
          /\ counter = b.population.counter
          /\ buildings = b.buildings
          /\ inactive = b.inactive
          /\ recording = b.recording
          /\ panic = b.panic
    /\ \E plan \in ReportPlans : sim = [NoSim EXCEPT !.pc = "built", !.report_plan = plan]
    /\ lastOp = "build"
    /\ ret = Returned("Unit", 0)
    /\ pre = NoPre
    /\ draws = NoDraws
    /\ many = NoMany

SimRun ==
    /\ ~panic
    /\ sim.pc = "built"
    /\ \E run \in Simulation_run(Simulation) :
          /\ sim' = [sim EXCEPT !.pc = "ran", !.counting_tables = run.counting_tables]
          /\ panic' = run.panic
    /\ lastOp' = "run"
    /\ ret' = Returned("Report", 0)
    /\ UNCHANGED <<population, counter, buildings, inactive, recording, pre, draws, many>>

\* a view of the Report is asked for: what it returns, or the panic
View(name, r) ==
    /\ ~panic
    /\ sim.pc = "ran"
    /\ panic' = r.panic
    /\ lastOp' = name
    /\ ret' = [tag |-> "view", val |-> r.val, counts |-> NoCounts]
    /\ UNCHANGED <<population, counter, buildings, inactive, recording, pre, draws, many, sim>>

ReportAverageCountingTable ==
    View("average_counting_table", Report_average_counting_table(sim.counting_tables))

ReportHealthy ==
    View("healthy", [panic |-> FALSE, val |-> Report_healthy(sim.counting_tables)])

ReportHealthyTranspose ==
    View("healthy_transpose", Report_healthy_transpose(sim.counting_tables))

ReportAverageHealthy ==
    View("average_healthy", Report_average_healthy(sim.counting_tables))

ReportHealthyLast ==
    View("healthy_last", Report_healthy_last(sim.counting_tables))

NextSim ==
    \/ SimRun
    \/ ReportAverageCountingTable
    \/ ReportHealthy
    \/ ReportHealthyTranspose
    \/ ReportAverageHealthy
    \/ ReportHealthyLast

SpecSim == InitSim /\ [][NextSim]_vars

(***************************************************************************)
(* The replicates of run() taken apart: a replicate is [board, stage], the *)
(* clone it works on and the days it has advanced it; the days of          *)
(* different replicates are taken in any order                             *)
(***************************************************************************)
\* the plans whose replicates are taken apart: one replicate, or two that can
\* meet
ReplicaPlans == {plan \in ReportPlans : plan.num_simulations \in {1, 2}}

\* the populations of their templates: at most two individuals
ReplicaPopulations == {v \in SortedPopulations : Len(v) <= 2}

InitReplicas ==
    /\ \E v \in ReplicaPopulations : \E blds \in BuilderLayouts :
          LET b == Board_new(Population_from(v), blds) IN
          /\ population = b.population.population
          /\ counter = b.population.counter
          /\ buildings = b.buildings
          /\ inactive = b.inactive
          /\ recording = b.recording
          /\ panic = b.panic
    /\ \E plan \in ReplicaPlans : sim = [NoSim EXCEPT !.pc = "built", !.report_plan = plan]
    /\ lastOp = "build"
    /\ ret = Returned("Unit", 0)
    /\ pre = NoPre
    /\ draws = NoDraws
    /\ many = NoMany

\* a replicate is started: the clone of the template
ReplicaClone ==
    /\ ~panic
    /\ sim.pc = "built"
    /\ Len(sim.replicates) < sim.report_plan.num_simulations
    /\ sim' = [sim EXCEPT !.replicates =
                  Append(@, [board |-> Simulation_clone(Simulation, sim.replicates),
                             stage |-> 0])]
    /\ lastOp' = "clone"
    /\ ret' = Returned("Unit", Len(sim.replicates) + 1)
    /\ UNCHANGED <<population, counter, buildings, inactive, recording, panic, pre, draws, many>>

\* one replicate takes one day of its advance_many
ReplicaAdvance ==
    /\ ~panic
    /\ sim.pc = "built"
    /\ \E r \in 1..Len(sim.replicates) :
          LET b == sim.replicates[r].board IN
          /\ sim.replicates[r].stage < sim.report_plan.days
          /\ ~b.panic
          /\ \E perm \in Shuffles(b.population.population) :
                \E infected \in InfectionChoices(Board_visit(b, perm)) :
                   sim' = [sim EXCEPT !.replicates[r] =
                              [board |-> Board_advance(b, perm, infected),
                               stage |-> sim.replicates[r].stage + 1],
                                      !.draw = <<perm, infected>>]
          /\ ret' = Returned("Unit", r)
    /\ lastOp' = "replica_advance"
    /\ UNCHANGED <<population, counter, buildings, inactive, recording, panic, pre, draws, many>>

\* every replicate is through: the counting tables are collected in order
ReplicaCollect ==
    /\ ~panic
    /\ sim.pc = "built"
    /\ Len(sim.replicates) = sim.report_plan.num_simulations
    /\ \A r \in 1..Len(sim.replicates) :
          sim.replicates[r].stage = sim.report_plan.days \/ sim.replicates[r].board.panic
    /\ panic' = \E r \in 1..Len(sim.replicates) : sim.replicates[r].board.panic
    /\ sim' = [sim EXCEPT !.pc = "ran",
                          !.counting_tables =
                              [r \in 1..Len(sim.replicates) |->
                                  Board_counting_table(sim.replicates[r].board)]]
    /\ lastOp' = "run"
    /\ ret' = Returned("Report", 0)
    /\ UNCHANGED <<population, counter, buildings, inactive, recording, pre, draws, many>>

NextReplicas ==
    \/ ReplicaClone
    \/ ReplicaAdvance
    \/ ReplicaCollect

SpecReplicas == InitReplicas /\ [][NextReplicas]_vars

(***************************************************************************)
(* Properties                                                              *)
(***************************************************************************)
\* the individuals day d of a counting table accounts for
DayTotal(table, d) ==
    table["Healthy"][d] + table["Infected1"][d] + table["Infected2"][d]
    + table["Infected3"][d] + table["Sick"][d] + table["Immune"][d]

\* C1: a day that starts with empty buildings and an empty inactive set leaves the
\* population as long as it found it, so after any number of advance() and
\* advance_population() calls the population is as long as the one the board was
\* built with (the one day 0 of the counting table accounts for)
C1_CardinalityConserved ==
    /\ (lastOp \in {"advance", "advance_population"} /\ pre.vacant) => Len(population) = pre.len
    /\ Len(population) = DayTotal(recording, 1)

C1_Witness ==
    /\ lastOp = "advance"
    /\ pre.vacant
    /\ many.n = MaxDays
    /\ Len(population) = MaxPop

\* C2: visit() on a board whose buildings and inactive set are empty puts every
\* individual of the population in exactly one place: the occupants of all
\* buildings and the inactive set together are the population, state by state
C2_VisitPlacesEveryoneOnce ==
    [][(lastOp' = "visit" /\ Occupants(buildings) = <<>> /\ inactive = <<>>) =>
          /\ CountsOf(Occupants(buildings') \o inactive') = CountsOf(population)
          /\ Len(Occupants(buildings')) + Len(inactive') = Len(population)]_vars

C2_Witness ==
    /\ lastOp = "visit"
    /\ pre.vacant
    /\ Occupants(buildings) # <<>>
    /\ inactive # <<>>

\* C3: after visit() on buildings that held no Sick individual, no building holds
\* one and the inactive set holds every Sick individual of the population
C3_SickStayHome ==
    (lastOp = "visit" /\ pre.sickFree) =>
        /\ CountIn(Occupants(buildings), "Sick") = 0
        /\ CountIn(inactive, "Sick") >= CountIn(population, "Sick")

\* a Sick individual was drawn on the way into a building
C3_Witness ==
    /\ lastOp = "visit"
    /\ pre.vacant
    /\ CountIn(inactive, "Sick") >= 1
    /\ Occupants(buildings) # <<>>
    /\ population[1] = "Sick"

\* C4: propagate() moves every inactive individual on by exactly one stage:
\* Infected1 to Infected2, Infected2 to Infected3, Infected3 to Sick; Healthy, Sick
\* and Immune stay; the inactive set keeps its size and holds no Infected1
C4_HomeClock ==
    [][lastOp' = "propagate" =>
          /\ Len(inactive') = Len(inactive)
          /\ \A k \in 1..Len(inactive) :
                /\ inactive[k] = "Infected1" => inactive'[k] = "Infected2"
                /\ inactive[k] = "Infected2" => inactive'[k] = "Infected3"
                /\ inactive[k] = "Infected3" => inactive'[k] = "Sick"
                /\ inactive[k] \in {"Healthy", "Sick", "Immune"} => inactive'[k] = inactive[k]
                /\ inactive'[k] # "Infected1"]_vars

C4_Witness ==
    /\ lastOp = "propagate"
    /\ CountIn(inactive, "Infected2") >= 1
    /\ CountIn(inactive, "Healthy") >= 1

\* C5: go_home() returns the number of individuals it drains from the buildings
\* in state Infected1, whoever is inactive; advance_population() returns the same
\* number, which is that of the Infected1 of the rebuilt population, no inactive
\* individual being Infected1 after propagate()
C5_NewlyInfectedFromBuildings ==
    [][/\ lastOp' = "go_home" => ret'.val = CountIn(Occupants(buildings), "Infected1")
       /\ lastOp' = "advance_population" => ret'.val = CountIn(population', "Infected1")]_vars

\* an inactive Infected1 went home uncounted beside a counted one
C5_Witness ==
    /\ lastOp = "go_home"
    /\ ret.val >= 1
    /\ CountIn(population, "Infected1") > ret.val

\* what advance() leaves of the board `b` when it visits, then propagates, then
\* goes home and only then registers the day's count, once
DayThenRegister(b, perm, infected) ==
    LET home == Board_go_home(Board_propagate(Board_visit(b, perm), infected)) IN
    [home.board EXCEPT !.recording =
        Recording_register(b.recording, home.newly_infected, home.board.buildings).table]

\* C6: advance() is visit, propagate, go_home in that order, followed by one
\* notification of the Recording with the day's count: every advance() adds one
\* entry per state to the counting table, so after n calls it has n more than the
\* one the board was built with; advance_population() leaves the recording alone
C6_AdvanceRegistersOnce ==
    /\ [](\A s \in Individual : Len(recording[s]) = 1 + many.n)
    /\ [][/\ lastOp' = "advance" =>
                /\ \A s \in Individual :
                      /\ Len(recording'[s]) = Len(recording[s]) + 1
                      /\ SubSeq(recording'[s], 1, Len(recording[s])) = recording[s]
                /\ \E perm \in Shuffles(population) :
                      \E infected \in InfectionChoices(Board_visit(Board, perm)) :
                         Board' = DayThenRegister(Board, perm, infected)
          /\ lastOp' = "advance_population" => recording' = recording]_vars

C6_Witness ==
    /\ lastOp = "advance"
    /\ many.n = MaxDays
    /\ CountingTable_days(recording) = MaxDays + 1
    /\ CountIn(population, "Infected1") >= 1

\* C7: advance_many(n) can leave exactly the boards n consecutive advance() calls
\* can leave, the board these calls did leave among them, and advance_many(0)
\* leaves the board as it is
C7_AdvanceManyIsRepeatedAdvance ==
    /\ Board_advance_many(many.start, many.n) = many.reach
    /\ Board \in Board_advance_many(many.start, many.n)
    /\ Board_advance_many(Board, 0) = {Board}

C7_Witness ==
    /\ many.n = MaxDays
    /\ Cardinality(many.reach) >= 2
    /\ Board # many.start

\* C8: after shuffle(), wherever the cursor was, the next len() calls of next()
\* each return an element, together the elements the population held before the
\* shuffle, each position once, and the call after them returns none
C8_ShuffleRestartsDraws ==
    (draws.shuffled /\ draws.clean) =>
        /\ draws.calls <= Len(population) => Len(draws.drawn) = draws.calls
        /\ draws.calls >= Len(population) =>
              /\ draws.drawn = population
              /\ CountsOf(draws.drawn) = draws.counts
        /\ (draws.calls > Len(population) /\ lastOp = "next") => ret.tag = "None"

C8_Witness ==
    /\ draws.shuffled
    /\ draws.clean
    /\ draws.calls = Len(population) + 1
    /\ lastOp = "next"
    /\ Len(population) = MaxPop
    /\ population[1] # population[2]

\* C9: only shuffle() moves the cursor back, to 0; next() moves it on by one and
\* returns the element it was at while it is below the length, and leaves it at
\* the length and returns none from then on; immunize, reverse_immunize, update,
\* counting and counting_all leave it alone; it stays within 0..len()
C9_CursorMoves ==
    [][/\ 0 <= counter' /\ counter' <= Len(population')
       /\ lastOp' = "shuffle" => counter' = 0
       /\ lastOp' = "next" =>
             IF counter < Len(population)
             THEN counter' = counter + 1 /\ ret'.tag = population[counter + 1]
             ELSE counter' = counter /\ ret'.tag = "None"
       /\ lastOp' \in {"immunize", "reverse_immunize", "update", "counting", "counting_all"} =>
             counter' = counter
       /\ counter' < counter => lastOp' = "shuffle"]_vars

\* a draw at the end, after another one at the end
C9_Witness ==
    /\ lastOp = "next"
    /\ ret.tag = "None"
    /\ counter = Len(population)
    /\ Len(population) = MaxPop
    /\ draws.calls = Len(population) + 2

\* C10: immunize() without a Healthy element returns NoHealthyLeft and
\* reverse_immunize() without an Immune element returns NoImmuneLeft, the sequence
\* and the cursor staying as they were
C10_NothingToConvert ==
    [][/\ (lastOp' = "immunize" /\ CountIn(population, "Healthy") = 0) =>
             /\ ret'.tag = "NoHealthyLeft"
             /\ population' = population
             /\ counter' = counter
       /\ (lastOp' = "reverse_immunize" /\ CountIn(population, "Immune") = 0) =>
             /\ ret'.tag = "NoImmuneLeft"
             /\ population' = population
             /\ counter' = counter]_vars

C10_Witness ==
    /\ lastOp = "immunize"
    /\ ret.tag = "NoHealthyLeft"
    /\ Len(population) = MaxPop
    /\ counter >= 1

\* C11: a successful immunize() changes one element only, the Healthy element at
\* the lowest index, to Immune, and a successful reverse_immunize() the Immune
\* element at the lowest index to Healthy; the other positions, the length and
\* the cursor stay, so one count goes down by one, the other up by one
C11_ExactlyTheFirst ==
    [][/\ (lastOp' = "immunize" /\ ret'.tag = "Ok") =>
             /\ \E k \in 1..Len(population) :
                   /\ population[k] = "Healthy"
                   /\ \A j \in 1..(k - 1) : population[j] # "Healthy"
                   /\ population' = [population EXCEPT ![k] = "Immune"]
             /\ counter' = counter
             /\ CountsOf(population') =
                   [CountsOf(population) EXCEPT !["Healthy"] = @ - 1, !["Immune"] = @ + 1]
       /\ (lastOp' = "reverse_immunize" /\ ret'.tag = "Ok") =>
             /\ \E k \in 1..Len(population) :
                   /\ population[k] = "Immune"
                   /\ \A j \in 1..(k - 1) : population[j] # "Immune"
                   /\ population' = [population EXCEPT ![k] = "Healthy"]
             /\ counter' = counter
             /\ CountsOf(population') =
                   [CountsOf(population) EXCEPT !["Immune"] = @ - 1, !["Healthy"] = @ + 1]]_vars

\* the first of two Healthy elements was converted, the cursor being past it
C11_Witness ==
    /\ lastOp = "immunize"
    /\ ret.tag = "Ok"
    /\ Len(population) = MaxPop
    /\ population[1] = "Immune"
    /\ population[Len(population)] = "Healthy"
    /\ counter >= 1

\* C12: on a population with a Healthy element, immunize() succeeds, the
\* reverse_immunize() that follows it succeeds too, and the two together leave
\* the count of every state as it was
C12_RoundTripRestoresCounts ==
    /\ [](CountIn(population, "Healthy") >= 1 =>
             LET there == Population_immunize(Pop)
                 back == Population_reverse_immunize(there.pop)
             IN  /\ there.err = "Ok"
                 /\ back.err = "Ok"
                 /\ Population_counting_all(back.pop) = Population_counting_all(Pop)
                 /\ back.pop.counter = counter)
    /\ [][(lastOp = "immunize" /\ ret.tag = "Ok" /\ lastOp' = "reverse_immunize") =>
             /\ ret'.tag = "Ok"
             /\ CountsOf(population') = pre.counts]_vars

\* the round trip ran on a population that held an Immune element before the
\* Healthy one: the counts are back, the sequence is not
C12_Witness ==
    /\ lastOp = "reverse_immunize"
    /\ ret.tag = "Ok"
    /\ pre.op = "immunize, reverse_immunize"
    /\ CountsOf(population) = pre.counts
    /\ Len(population) = MaxPop
    /\ population[1] = "Healthy"
    /\ population[Len(population)] = "Immune"

C14_RunReportsEveryReplicate ==
    (sim.pc = "ran" /\ ~panic) =>
        /\ Len(sim.counting_tables) = sim.report_plan.num_simulations
        /\ \A r \in 1..Len(sim.counting_tables) : \A s \in Individual :
              /\ Len(sim.counting_tables[r][s]) = sim.report_plan.days + 1
              /\ sim.counting_tables[r][s][1] = Board_counting_table(Board)[s][1]
              /\ sim.counting_tables[r][s][1] = CountIn(population, s)
        /\ sim.report_plan.num_simulations = 0 => sim.counting_tables = <<>>
        /\ sim.report_plan.days = 0 =>
              \A r \in 1..Len(sim.counting_tables) :
                 sim.counting_tables[r] = Board_counting_table(Board)

\* two replicates of the longest run that went different ways
C14_Witness ==
    /\ sim.pc = "ran"
    /\ ~panic
    /\ sim.report_plan.num_simulations = MaxSims
    /\ sim.report_plan.days = MaxDays
    /\ Len(sim.counting_tables) = MaxSims
    /\ sim.counting_tables[1] # sim.counting_tables[MaxSims]

\* C16: average_counting_table() of an empty report has one row per state and
\* no column; of a report of R tables with D days each it has 6 rows of D cells,
\* the cell of a state and a day having received one sample per replicate, that
\* replicate's count of the state on the day, so that its mean is their sum over
\* R; samples 0 and 1 give the mean 1/2 and the standard error 1/2
C16_AverageCollectsEveryReplicate ==
    (lastOp = "average_counting_table" /\ ~panic) =>
        LET tables == sim.counting_tables
            array == ret.val
        IN  /\ Len(array) = Cardinality(Individual)
            /\ tables = <<>> => \A row \in 1..Len(array) : array[row] = <<>>
            /\ tables # <<>> =>
                  \A row \in 1..Len(array) :
                     /\ Len(array[row]) = sim.report_plan.days + 1
                     /\ \A col \in 1..Len(array[row]) :
                           LET cell == array[row][col]
                               counts == [r \in 1..Len(tables) |->
                                             tables[r][IndividualOrder[row]][col]]
                           IN  /\ Len(cell) = Len(tables)
                               /\ cell = counts
                               /\ SameFraction(Variance_mean(cell),
                                               [num |-> Sum(counts), den |-> Len(tables)])
                               /\ (Len(cell) = 2 /\ {cell[1], cell[2]} = {0, 1}) =>
                                     /\ SameFraction(Variance_mean(cell), [num |-> 1, den |-> 2])
                                     /\ SameFraction(Variance_error2(cell), [num |-> 1, den |-> 4])

\* the Healthy cell of the last day of a run received the samples 0 and 1
C16_Witness ==
    /\ lastOp = "average_counting_table"
    /\ ~panic
    /\ Len(sim.counting_tables) = 2
    /\ sim.report_plan.days = MaxDays
    /\ {ret.val[1][MaxDays + 1][1], ret.val[1][MaxDays + 1][2]} = {0, 1}

\* C17: on a report of R >= 1 tables with D days each, healthy() returns the R
\* Healthy series in the order of the replicates, healthy_transpose() D rows of R
\* values, row d holding day d of every series, healthy_last() the last value of
\* every series in order, and average_healthy() D entries, entry d having
\* received day d of every series
C17_HealthyViews ==
    LET tables == sim.counting_tables
        R == Len(sim.counting_tables)
        D == sim.report_plan.days + 1
    IN  /\ (lastOp \in {"healthy", "healthy_transpose", "healthy_last", "average_healthy"}
             /\ R >= 1) => ~panic
        /\ (lastOp = "healthy" /\ ~panic) =>
              /\ Len(ret.val) = R
              /\ \A r \in 1..R : ret.val[r] = tables[r]["Healthy"] /\ Len(ret.val[r]) = D
        /\ (lastOp \in {"healthy_transpose", "average_healthy"} /\ ~panic) =>
              /\ Len(ret.val) = D
              /\ \A d \in 1..D :
                    /\ Len(ret.val[d]) = R
                    /\ \A r \in 1..R : ret.val[d][r] = tables[r]["Healthy"][d]
        /\ (lastOp = "healthy_last" /\ ~panic) =>
              /\ Len(ret.val) = R
              /\ \A r \in 1..R : ret.val[r] = tables[r]["Healthy"][D]

\* the transpose of two series of three days that differ
C17_Witness ==
    /\ lastOp = "healthy_transpose"
    /\ ~panic
    /\ Len(sim.counting_tables) = 2
    /\ sim.report_plan.days = 2
    /\ Len(ret.val) = 3
    /\ ret.val[3][1] # ret.val[3][2]
    /\ ret.val[1][1] # ret.val[3][1]

\* C15: the replicates of run() do not meet. Every replicate starts from a board
\* equal to the template; a day of one replicate changes that replicate only,
\* by the advance() its own board and its own random draws give, and neither the
\* template nor another replicate; so in
\* whatever order the days are taken every replicate has registered its own days
\* only, the table collected for a replicate is the one its own days, as many as
\* the plan asks for, have left on its clone of the template, and the tables
\* together are a report the loop of run() can return
C15_ReplicatesAreIndependent ==
    /\ [](/\ \A r \in 1..Len(sim.replicates) :
               /\ sim.replicates[r].stage = 0 => sim.replicates[r].board = Board
               /\ CountingTable_days(Board_counting_table(sim.replicates[r].board))
                     = sim.replicates[r].stage + 1
          /\ (sim.pc = "ran" /\ ~panic) =>
               /\ Len(sim.counting_tables) = sim.report_plan.num_simulations
               /\ \A r \in 1..Len(sim.counting_tables) :
                     /\ sim.counting_tables[r] = Board_counting_table(sim.replicates[r].board)
                     /\ sim.replicates[r].stage = sim.report_plan.days
               /\ [panic |-> FALSE, counting_tables |-> sim.counting_tables]
                     \in Simulation_run(Simulation))
    /\ [][/\ Board' = Board
          /\ lastOp' = "clone" =>
                /\ Len(sim'.replicates) = Len(sim.replicates) + 1
                /\ sim'.replicates[Len(sim'.replicates)] = [board |-> Board, stage |-> 0]
                /\ \A q \in 1..Len(sim.replicates) : sim'.replicates[q] = sim.replicates[q]
          /\ lastOp' = "replica_advance" =>
                /\ Len(sim'.replicates) = Len(sim.replicates)
                /\ \A q \in 1..Len(sim.replicates) :
                      q # ret'.val => sim'.replicates[q] = sim.replicates[q]
                /\ sim'.replicates[ret'.val].board =
                      Board_advance(sim.replicates[ret'.val].board, sim'.draw[1], sim'.draw[2])
                /\ sim'.replicates[ret'.val].stage = sim.replicates[ret'.val].stage + 1]_vars

\* the second replicate was cloned after the first had changed its board, and
\* the two ended on different boards
C15_Witness ==
    /\ lastOp = "clone"
    /\ Len(sim.replicates) = 2
    /\ sim.replicates[1].stage >= 1
    /\ sim.replicates[1].board.population # Board.population
    /\ sim.replicates[2].board = Board

\* an individual in one of the infected stages
Infected == {"Infected1", "Infected2", "Infected3"}

\* C18 as stated: every building full and a population of Sick and Immune
\* individuals only make advance_population() return 0
C18_AsStated ==
    [][(/\ lastOp' = "advance_population"
        /\ \A k \in 1..Len(buildings) : Building_is_full(buildings[k])
        /\ population # <<>>
        /\ \A i \in 1..Len(population) : population[i] \in {"Sick", "Immune"}) =>
          ret'.val = 0]_vars

\* C18: if every building is full, none of their occupants is in an infected
\* stage and the population consists of Sick and Immune individuals only,
\* advance_population() returns 0 newly infected: nobody enters a building, the
\* whole population stays at home and nobody sits next to an infected individual
C18_FullAndCleanBuildings ==
    [][(/\ lastOp' = "advance_population"
        /\ \A k \in 1..Len(buildings) : Building_is_full(buildings[k])
        /\ \A k \in 1..Len(Occupants(buildings)) : Occupants(buildings)[k] \notin Infected
        /\ \A i \in 1..Len(population) : population[i] \in {"Sick", "Immune"}) =>
          /\ ~panic'
          /\ ret'.val = 0
          /\ CountIn(population', "Infected1") = 0]_vars

\* the day of a Sick and an Immune individual on a board whose buildings were
\* full of Healthy ones
C18_Witness ==
    /\ lastOp = "advance_population"
    /\ ~panic
    /\ ret.val = 0
    /\ ~pre.vacant
    /\ CountIn(population, "Healthy") = MaxCap
    /\ CountIn(population, "Sick") >= 1
    /\ CountIn(population, "Immune") >= 1
    /\ Len(population) = MaxCap + 2

\* C19 as stated: on the default board, once the immunize() calls of the test
\* have succeeded no Healthy individual remains, and no advance() after them
\* leaves an Infected1 individual in the population
C19_AsStated ==
    [][(lastOp' = "advance" /\ CountIn(population, "Immune") = TestImmunizations) =>
          /\ many.n = 0 => CountIn(population, "Healthy") = 0
          /\ CountIn(population', "Infected1") = 0]_vars

\* C19: on the default board, once as many immunize() calls have succeeded as
\* there are Healthy individuals (98) no Healthy individual remains, the next
\* immunize() fails, and no advance() after them leaves an Infected1 or a
\* Healthy individual in the population
C19_NobodyLeftToInfect ==
    /\ [](CountIn(population, "Immune") = DefaultHealthy =>
             /\ CountIn(population, "Healthy") = 0
             /\ Len(population) = DefaultHealthy + 2)
    /\ [][/\ (lastOp' = "advance" /\ CountIn(population, "Immune") = DefaultHealthy) =>
                /\ CountIn(population', "Infected1") = 0
                /\ CountIn(population', "Immune") = DefaultHealthy
          /\ (lastOp' = "immunize" /\ CountIn(population, "Immune") = DefaultHealthy) =>
                ret'.tag = "NoHealthyLeft"]_vars

\* the days have passed among Immune individuals: the two Infected1 have moved
\* on and nobody joined them
C19_Witness ==
    /\ lastOp = "advance"
    /\ many.n = MaxDays
    /\ CountIn(population, "Immune") = DefaultHealthy
    /\ CountIn(population, "Infected1") = 0
    /\ CountIn(population, "Infected2") + CountIn(population, "Infected3")
          + CountIn(population, "Sick") = 2

\* the buildings share one spreading mode
OneSpreadingMode(blds) ==
    \A j, k \in 1..Len(blds) : Building_spreading(blds[j]) = Building_spreading(blds[k])

\* C20: Board::new fails fatally on buildings that do not share one spreading
\* mode; on a board that was built, whatever advance, immunize, toggle, open,
\* close and set_spreading calls came, the buildings share one spreading mode;
\* and set_spreading(m) leaves every building with the mode m
C20_OneSpreadingModeOnTheBoard ==
    /\ []((lastOp = "new" /\ ~OneSpreadingMode(buildings)) => panic)
    /\ [](~panic => OneSpreadingMode(buildings))
    /\ [][lastOp' = "set_spreading" =>
            \A k \in 1..Len(buildings') : Building_spreading(buildings'[k]) = pre'.op]_vars

\* two buildings, a day has passed, a building is closed, and
\* set_spreading(Everyone) has just returned
C20_Witness ==
    /\ lastOp = "set_spreading"
    /\ ~panic
    /\ Len(buildings) = 2
    /\ many.n >= 1
    /\ \E k \in 1..Len(buildings) : ~Building_is_open(buildings[k])
    /\ Building_spreading(buildings[1]) = pre.op
    /\ pre.op = "Everyone"

\* a building received somebody only if every earlier building is full or closed
GreedyOrder(before, after) ==
    \A k \in 1..Len(after) :
        Len(after[k].occ) > Len(before[k].occ) =>
            \A j \in 1..(k - 1) : Building_is_full(after[j]) \/ ~Building_is_open(after[j])

\* somebody who is not Sick is inactive only if every open building is full
KeptOutByFullBuildings(blds, home) ==
    (\E i \in 1..Len(home) : home[i] # "Sick") =>
        \A k \in 1..Len(blds) : Building_is_open(blds[k]) => Building_is_full(blds[k])

\* C21 as stated: visit() fills the buildings greedily in their order, and after
\* any visit() a non-Sick individual is inactive only if every open building is
\* full
C21_AsStated ==
    [][(lastOp' = "visit" /\ ~panic') =>
          /\ GreedyOrder(buildings, buildings')
          /\ KeptOutByFullBuildings(buildings', inactive')]_vars

\* C21: visit() fills the buildings greedily in their order: building k receives
\* an individual only after every earlier building is full or closed; and after
\* a visit() that found the inactive set empty, a non-Sick individual is
\* inactive only if every open building is full
C21_GreedyFill ==
    [][(lastOp' = "visit" /\ ~panic') =>
          /\ GreedyOrder(buildings, buildings')
          /\ inactive = <<>> => KeptOutByFullBuildings(buildings', inactive')]_vars

\* the first building is closed, the second took one of two and is full, the
\* other one stays home without being Sick
C21_Witness ==
    /\ lastOp = "visit"
    /\ pre.vacant
    /\ Len(buildings) = 2
    /\ ~Building_is_open(buildings[1])
    /\ buildings[2].occ # <<>>
    /\ \E i \in 1..Len(inactive) : inactive[i] # "Sick"

\* every building is full or closed
NoRoom(blds) ==
    \A k \in 1..Len(blds) : Building_is_full(blds[k]) \/ ~Building_is_open(blds[k])

\* C22: visit() never fails on an admission, no building ever holds more
\* individuals than its capacity, and when every building is full or closed
\* visit() draws nobody, leaves the buildings as they are and sends the whole
\* population to the inactive set
C22_AdmissionNeverFails ==
    /\ [](\A k \in 1..Len(buildings) : Len(buildings[k].occ) <= buildings[k].capacity)
    /\ [][lastOp' = "visit" =>
            /\ ~panic'
            /\ NoRoom(buildings) =>
                  /\ counter' = 0
                  /\ buildings' = buildings
                  /\ inactive' = inactive \o population']_vars

\* a second visit() finds the open building full of the first one's visitors and
\* sends everybody home undrawn
C22_Witness ==
    /\ lastOp = "visit"
    /\ ~pre.vacant
    /\ ~panic
    /\ counter = 0
    /\ population # <<>>
    /\ NoRoom(buildings)
    /\ \E k \in 1..Len(buildings) : Building_is_open(buildings[k])
    /\ Len(inactive) >= Len(population)

\* C23: go_home() leaves every building and the inactive set empty and rebuilds
\* the population, cursor at 0, as the occupants in building order followed by
\* the inactive set; so after every advance() the buildings and the inactive set
\* are empty, and from one advance() to the next the population keeps its size,
\* nobody coming back from an earlier day's inactive set
C23_EverybodyGoesHome ==
    /\ []((lastOp = "advance" /\ ~panic) =>
             (Occupants(buildings) = <<>> /\ inactive = <<>>))
    /\ [][/\ lastOp' = "go_home" =>
                /\ Occupants(buildings') = <<>>
                /\ inactive' = <<>>
                /\ population' = Occupants(buildings) \o inactive
                /\ counter' = 0
          /\ (lastOp = "advance" /\ lastOp' = "advance" /\ ~panic') =>
                Len(population') = Len(population)]_vars

\* go_home() drained a building holding an Infected1 individual and took a Sick
\* individual from the inactive set, where every Sick one was
C23_Witness ==
    /\ lastOp = "go_home"
    /\ ~pre.vacant
    /\ pre.sickFree
    /\ ret.val >= 1
    /\ population[Len(population)] = "Sick"

\* C24: on the default board, after the immunize() calls that leave 2 Healthy and
\* 2 Infected1 individuals among Immune ones and after 8 advance() calls, the
\* population holds no Infected1 individual after any of the next 10 advance()
\* calls, whatever the shuffles and the contagion
C24_EpidemicDiesOut ==
    (lastOp = "advance" /\ ~panic /\ many.n > TestWarmUp) =>
        CountIn(population, "Infected1") = 0

\* the last of the 10 days, after both Healthy individuals went through the
\* disease
C24_Witness ==
    /\ lastOp = "advance"
    /\ ~panic
    /\ many.n = TestWarmUp + TestDays
    /\ CountIn(population, "Immune") = EpidemicImmunizations
    /\ CountIn(population, "Sick") = TestHealthyLeft + 2

\* C25 as stated: advance_population() on empty buildings and a population
\* without an infected individual returns 0 and leaves the count of every state
\* of the population as it was
C25_AsStated ==
    [][(/\ lastOp' = "advance_population"
        /\ ~panic'
        /\ \A i \in 1..Len(population) : population[i] \notin Infected
        /\ Occupants(buildings) = <<>>) =>
          /\ ret'.val = 0
          /\ CountsOf(population') = CountsOf(population)]_vars

\* C25: advance_population() on empty buildings, an empty inactive set and a
\* population without an infected individual returns 0 and leaves the count of
\* every state of the population as it was
C25_NoInfectedNoInfection ==
    [][(/\ lastOp' = "advance_population"
        /\ ~panic'
        /\ \A i \in 1..Len(population) : population[i] \notin Infected
        /\ Occupants(buildings) = <<>>
        /\ inactive = <<>>) =>
          /\ ret'.val = 0
          /\ CountsOf(population') = CountsOf(population)]_vars

\* a day of two individuals, Healthy or Immune as they were, one Healthy at
\* least
C25_Witness ==
    /\ lastOp = "advance_population"
    /\ ~panic
    /\ pre.vacant
    /\ pre.len = 2
    /\ Len(population) = 2
    /\ \A i \in 1..Len(population) : population[i] \in {"Healthy", "Immune"}
    /\ population[1] = "Healthy"
    /\ ret.val = 0

\* C26: a Sick individual stays Sick through the day: visit() admits no Sick
\* individual to a building and sends every Sick one of the population to the
\* inactive set, propagate() leaves a Sick inactive individual Sick, go_home()
\* takes every Sick inactive individual into the rebuilt population; so the
\* number of Sick individuals of the population never decreases over an
\* advance()
C26_SickIsAbsorbing ==
    [][/\ (lastOp' = "visit" /\ ~panic') =>
             /\ CountIn(Occupants(buildings'), "Sick") = CountIn(Occupants(buildings), "Sick")
             /\ CountIn(inactive', "Sick") =
                   CountIn(inactive, "Sick") + CountIn(population, "Sick")
       /\ lastOp' = "propagate" =>
             \A k \in 1..Len(inactive) : inactive[k] = "Sick" => inactive'[k] = "Sick"
       /\ lastOp' = "go_home" =>
             CountIn(population', "Sick") >= CountIn(inactive, "Sick")
       /\ (lastOp' = "advance" /\ ~panic') =>
             CountIn(population', "Sick") >= CountIn(population, "Sick")]_vars

\* the board was built with a Sick individual and has gone through its days
C26_Witness ==
    /\ lastOp = "advance"
    /\ ~panic
    /\ many.n = MaxDays
    /\ recording["Sick"][1] >= 1
    /\ CountIn(population, "Sick") >= 1
    /\ Len(population) = MaxPop

\* C27 as stated: on the empty report of 0 replicates, healthy(),
\* healthy_transpose(), average_healthy() and healthy_last() each return an
\* empty sequence and none of them fails
C27_AsStated ==
    (/\ lastOp \in {"healthy", "healthy_transpose", "average_healthy", "healthy_last"}
     /\ sim.counting_tables = <<>>) =>
        /\ ~panic
        /\ ret.val = <<>>

====
